---- MODULE Spec2Model ----
(***************************************************************************)
(* Model of the camera test harness:                                       *)
(*   src/camera-test/camera_controller.py  (CameraController)              *)
(*   src/camera-test/test_camera_output.py (CameraTests, list_cameras,     *)
(*                                          the __main__ entry point)      *)
(*                                                                         *)
(* The process is single threaded, so one program counter `pc` walks the   *)
(* entry point and, inside it, the methods of the session under test.      *)
(* External tools (v4l2-ctl, ffmpeg, ffprobe), the environment variables,  *)
(* the typed selection and the wall clock are inputs: every outcome they   *)
(* can produce is drawn with \E where the code reads it.                   *)
(*                                                                         *)
(* Text is modelled as a sequence of one-character strings, so that        *)
(* strip(), lower(), int(), eval() and decimal formatting are computed.    *)
(***************************************************************************)
EXTENDS Integers, Sequences, FiniteSets, TLC

VARIABLES
  pc,            \* position in the program
  exitCode,      \* -1 while running, else the process exit status
  raised,        \* "none", or the exception that ended the process
  clock,         \* wall clock, in ticks (TicksPerSec ticks per second)
  cameras,       \* result of list_cameras()
  env_device,    \* os.getenv("CAMERA_DEVICE") once read
  env_docker,    \* os.getenv("RUNNING_IN_DOCKER") once read
  choice,        \* the stripped line read by input()
  camera_device, \* device of the session under test
  todo,          \* devices the 'all' loop has still to test
  mode,          \* which branch of the selection was taken
  timestamp,     \* self.timestamp of the current session
  fps,           \* self.fps
  logs,          \* log files on disk: timestamp -> sequence of lines
  images,        \* image files on disk: timestamp -> file
  videos,        \* video files on disk: timestamp -> file
  attempt,       \* loop variable of capture_image
  stdout,        \* result.stdout in test_video_fps, kept until the next check
  captured,      \* value returned by self.capture_image()
  result,        \* value returned by the last check function
  sessions,      \* timestamps of the CameraTests objects constructed so far
  polls,         \* file polls made by capture_image in this session
  sleeps,        \* time.sleep(1) calls made by capture_image in this session
  captureCalls,  \* camera.capture_image calls made in this session
  num, den,      \* the ratio a probe rate string was printed from
  machine        \* the machine the process runs on: its cameras and tools

vars == <<pc, exitCode, raised, clock, cameras, env_device, env_docker, choice,
          camera_device, todo, mode, timestamp, fps, logs, images, videos,
          attempt, stdout, captured, result, sessions, polls, sleeps,
          captureCalls, num, den, machine>>

(***************************************************************************)
(* Bounds of the model                                                     *)
(***************************************************************************)
MaxDevices == 2
MaxFaultyDevices == 1
TicksPerSec == 2
MaxNum == 70
MaxDen == 3
MaxPix == 2

(***************************************************************************)
(* Program constants                                                       *)
(***************************************************************************)
max_retries == 3
DefaultFps == 30
expected_width == 1280
expected_height == 720
BrightMin == 50
BrightMax == 200
FpsTolerance == 1

(***************************************************************************)
(* Text: sequences of one-character strings                                *)
(***************************************************************************)
Digits == <<"0", "1", "2", "3", "4", "5", "6", "7", "8", "9">>

IsDigit(c) == \E i \in 1..Len(Digits) : Digits[i] = c

DigitVal(c) == (CHOOSE i \in 1..Len(Digits) : Digits[i] = c) - 1

AllDigits(s) == \A i \in 1..Len(s) : IsDigit(s[i])

\* Value of a non-empty string of decimal digits.
RECURSIVE DecVal(_)
DecVal(s) ==
  IF Len(s) = 0 THEN 0
  ELSE 10 * DecVal(SubSeq(s, 1, Len(s) - 1)) + DigitVal(s[Len(s)])

\* str(n) for n >= 0, the way ffprobe and a user print a number.
RECURSIVE Format(_)
Format(n) ==
  IF n < 10 THEN <<Digits[n + 1]>>
  ELSE Append(Format(n \div 10), Digits[(n % 10) + 1])

\* str.strip(): leading and trailing blanks removed.
RECURSIVE LStrip(_)
LStrip(s) == IF Len(s) > 0 /\ s[1] = " " THEN LStrip(Tail(s)) ELSE s

RECURSIVE RStrip(_)
RStrip(s) ==
  IF Len(s) > 0 /\ s[Len(s)] = " " THEN RStrip(SubSeq(s, 1, Len(s) - 1)) ELSE s

strip(s) == RStrip(LStrip(s))

LowerChar(c) ==
  CASE c = "A" -> "a"
    [] c = "L" -> "l"
    [] c = "X" -> "x"
    [] OTHER -> c

\* str.lower()
lower(s) == [i \in 1..Len(s) |-> LowerChar(s[i])]

\* int(s): blanks around the number are ignored, one sign is allowed, the rest
\* must be a non-empty run of digits; anything else is a ValueError.
int(s) ==
  LET t == strip(s)
      signed == Len(t) > 0 /\ t[1] \in {"+", "-"}
      body == IF signed THEN Tail(t) ELSE t
  IN IF Len(body) > 0 /\ AllDigits(body)
     THEN [ok |-> TRUE,
           val |-> IF signed /\ t[1] = "-" THEN 0 - DecVal(body) ELSE DecVal(body)]
     ELSE [ok |-> FALSE, val |-> 0]

(***************************************************************************)
(* eval() of a rate string.  The strings considered are made of digits and *)
(* "/" (what ffprobe prints) plus letters, which Python reads as undefined *)
(* names.  A value is the exact ratio n/d with d > 0: "/" is true division *)
(* and "//" floor division.  exc names the exception eval raises, "none"   *)
(* when it returns.                                                        *)
(***************************************************************************)
Value(n, d) == [exc |-> "none", n |-> n, d |-> d]

Throw(e) == [exc |-> e, n |-> 0, d |-> 1]

\* The pieces of s between its "/" characters.
RECURSIVE Segments(_)
Segments(s) ==
  IF \A i \in 1..Len(s) : s[i] # "/" THEN <<s>>
  ELSE LET k == CHOOSE i \in 1..Len(s) :
                   s[i] = "/" /\ \A j \in 1..(i - 1) : s[j] # "/"
       IN <<SubSeq(s, 1, k - 1)>> \o Segments(SubSeq(s, k + 1, Len(s)))

\* A decimal integer literal: digits, with no leading zero on a non-zero number.
IsIntLiteral(t) ==
  /\ Len(t) > 0
  /\ AllDigits(t)
  /\ (Len(t) > 1 /\ t[1] = "0") => \A i \in 1..Len(t) : t[i] = "0"

\* An identifier: no name is bound in the namespace eval is given.
IsName(t) == Len(t) > 0 /\ \A i \in 1..Len(t) : t[i] \in {"N", "A", "x"}

\* The operand t: its value, or the exception reading it raises.
Operand(t) ==
  IF IsIntLiteral(t) THEN Value(DecVal(t), 1)
  ELSE IF IsName(t) THEN Throw("NameError")
  ELSE Throw("SyntaxError")

\* Python 2's "/" on integers: the quotient is floored.
TrueDiv_floored(a, b) ==
  IF b.n = 0 THEN Throw("ZeroDivisionError")
  ELSE Value((a.n * b.d) \div (a.d * b.n), 1)

\* a / b
TrueDiv(a, b) ==
  IF b.n = 0 THEN Throw("ZeroDivisionError")
  ELSE Value(a.n * b.d, a.d * b.n)

\* a // b
FloorDiv(a, b) ==
  IF b.n = 0 THEN Throw("ZeroDivisionError")
  ELSE Value((a.n * b.d) \div (a.d * b.n), 1)

\* The source is compiled before it is run: a malformed operand anywhere is a
\* SyntaxError, whatever stands before it.
WellFormed(segs) ==
  /\ Len(segs[1]) > 0
  /\ Len(segs[Len(segs)]) > 0
  /\ \A i \in 1..Len(segs) :
        /\ Len(segs[i]) > 0 => (IsIntLiteral(segs[i]) \/ IsName(segs[i]))
        /\ Len(segs[i]) = 0 => (i < Len(segs) /\ Len(segs[i + 1]) > 0)

\* Left-to-right evaluation of segs[i..] applied to the value acc.
RECURSIVE EvalFrom(_, _, _)
EvalFrom(acc, segs, i) ==
  IF acc.exc # "none" \/ i > Len(segs) THEN acc
  ELSE IF Len(segs[i]) = 0
       THEN \* an empty piece: the two slashes around it are the operator "//"
            LET b == Operand(segs[i + 1])
            IN IF b.exc # "none" THEN b ELSE EvalFrom(FloorDiv(acc, b), segs, i + 2)
       ELSE LET b == Operand(segs[i])
            IN IF b.exc # "none" THEN b ELSE EvalFrom(TrueDiv(acc, b), segs, i + 1)

eval(s) ==
  LET segs == Segments(s)
  IN IF ~WellFormed(segs) THEN Throw("SyntaxError")
     ELSE EvalFrom(Operand(segs[1]), segs, 2)

Abs(x) == IF x < 0 THEN 0 - x ELSE x

(***************************************************************************)
(* ffprobe output.  json = FALSE: text json.loads rejects.  Otherwise the  *)
(* decoded object: hasStreams says whether it has a "streams" key, streams *)
(* is that list, and each stream maps its field names to their text.       *)
(* ran = FALSE is the value of `stdout` while test_video_fps has not run.   *)
(***************************************************************************)
NoOutput == [ran |-> FALSE, json |-> FALSE, hasStreams |-> FALSE, streams |-> <<>>]

NotJson == [ran |-> TRUE, json |-> FALSE, hasStreams |-> FALSE, streams |-> <<>>]

EmptyObject == [ran |-> TRUE, json |-> TRUE, hasStreams |-> FALSE, streams |-> <<>>]

Streams(ss) == [ran |-> TRUE, json |-> TRUE, hasStreams |-> TRUE, streams |-> ss]

\* `'"key"' in result.stdout`: the JSON text names the key exactly when a
\* stream of the decoded object has that field.
Mentions(out, key) ==
  out.json /\ \E i \in 1..Len(out.streams) : key \in DOMAIN out.streams[i]

\* A check's outcome: the value it returns, or the exception it lets escape.
Return(v) == [exc |-> "none", ret |-> v]

Escapes(e) == [exc |-> e, ret |-> FALSE]

\* The body of the try block of test_video_fps.
fps_try(out, target) ==
  IF ~out.json THEN Escapes("JSONDecodeError")
  ELSE IF ~out.hasStreams THEN Escapes("KeyError")
  ELSE IF Len(out.streams) = 0 THEN Escapes("IndexError")
  ELSE IF "r_frame_rate" \notin DOMAIN out.streams[1] THEN Escapes("KeyError")
  ELSE LET v == eval(out.streams[1]["r_frame_rate"])
       IN IF v.exc # "none" THEN Escapes(v.exc)
          ELSE Return(Abs(v.n - target * v.d) <= FpsTolerance * v.d)

\* `except ValueError`: the lookups' and the division's exceptions escape.
fps_except_ValueError(e) == e \in {"JSONDecodeError", "ValueError"}

\* `except Exception`: every exception the try block can raise is one.
fps_except(e) == TRUE

test_video_fps(out, target) ==
  LET r == fps_try(out, target)
  IN IF r.exc # "none" /\ fps_except(r.exc) THEN Return(FALSE) ELSE r

test_video_validity(out) == Mentions(out, "width") /\ Mentions(out, "height")

test_video_audio(out) == Mentions(out, "codec_name")

(***************************************************************************)
(* Image files.  kind "empty" is a file of size 0, "corrupt" one that      *)
(* cv2.imread cannot decode, "jpeg" a decodable image of w x h pixels      *)
(* whose grayscale plane is made of Len(pix) equal areas of the gray       *)
(* levels pix (0..255).  A missing file is a path outside DOMAIN images.   *)
(***************************************************************************)
EmptyFile == [kind |-> "empty", w |-> 0, h |-> 0, pix |-> <<>>]

CorruptFile == [kind |-> "corrupt", w |-> 0, h |-> 0, pix |-> <<>>]

Jpeg(w, h, pix) == [kind |-> "jpeg", w |-> w, h |-> h, pix |-> pix]

\* os.path.exists(path) and os.path.getsize(path) > 0
ExistsNonEmpty(files, path) == path \in DOMAIN files /\ files[path].kind # "empty"

\* cv2.imread(path) returns an image (not None)
Decodable(files, path) == path \in DOMAIN files /\ files[path].kind = "jpeg"

RECURSIVE Sum(_)
Sum(q) == IF Len(q) = 0 THEN 0 ELSE Head(q) + Sum(Tail(q))

test_image_exists(files, path) == ExistsNonEmpty(files, path)

test_image_validity(files, path) == Decodable(files, path)

test_image_resolution(files, path) ==
  /\ Decodable(files, path)
  /\ files[path].w = expected_width
  /\ files[path].h = expected_height

\* 50 < np.mean(img) < 200
test_image_brightness_exclusive(files, path) ==
  /\ Decodable(files, path)
  /\ LET pix == files[path].pix
     IN /\ BrightMin * Len(pix) < Sum(pix)
        /\ Sum(pix) < BrightMax * Len(pix)

\* 50 <= np.mean(img) <= 200, the mean being Sum(pix) / Len(pix)
test_image_brightness(files, path) ==
  /\ Decodable(files, path)
  /\ LET pix == files[path].pix
     IN /\ BrightMin * Len(pix) <= Sum(pix)
        /\ Sum(pix) <= BrightMax * Len(pix)

(***************************************************************************)
(* The audit log.  A line is its kind and its message; the time prefix     *)
(* log() puts before the message is left out.  kind is "HEADER" and "RULE" *)
(* for the two lines __init__ writes, "PASS" and "FAIL" for the verdicts   *)
(* of assert_test, "INFO" for the rest.                                    *)
(***************************************************************************)
Line(kind, msg) == [kind |-> kind, msg |-> msg]

\* open(path, "w") followed by the two writes of __init__
CreateLog(files, path) ==
  LET content == <<Line("HEADER", "Audit Log - Test Session"), Line("RULE", "=")>>
  IN [p \in DOMAIN files \cup {path} |-> IF p = path THEN content ELSE files[p]]

\* log(message) with the file opened in mode "w"
log_truncating(files, path, line) ==
  [p \in DOMAIN files \cup {path} |-> IF p = path THEN <<line>> ELSE files[p]]

\* log(message): open(path, "a") and one write
log(files, path, line) ==
  [p \in DOMAIN files \cup {path} |->
     IF p = path
     THEN (IF path \in DOMAIN files THEN Append(files[path], line) ELSE <<line>>)
     ELSE files[p]]

RECURSIVE logAll(_, _, _)
logAll(files, path, lines) ==
  IF Len(lines) = 0 THEN files
  ELSE logAll(log(files, path, Head(lines)), path, Tail(lines))

Info(msg) == Line("INFO", msg)

\* assert_test(condition, message): one PASS or FAIL line
assert_test(condition, message) ==
  IF condition THEN Line("PASS", message) ELSE Line("FAIL", message)

WriteFile(files, path, file) ==
  [p \in DOMAIN files \cup {path} |-> IF p = path THEN file ELSE files[p]]

(***************************************************************************)
(* The clock.  datetime.now().strftime("%Y%m%d_%H%M%S") keeps whole        *)
(* seconds only.  time.sleep(1) lets one second pass and every other       *)
(* statement none: the least time a run can take.  The process starts at   *)
(* any tick of a second.                                                   *)
(***************************************************************************)
strftime(c) == c \div TicksPerSec

\* time.sleep(0.5)
SleepTicks_half == TicksPerSec \div 2

SleepTicks == 1 * TicksPerSec

(***************************************************************************)
(* Inputs                                                                  *)
(***************************************************************************)
\* The device lines list_cameras() keeps: one per detected device.
Device(i) == <<"/dev/video", i>>

\* A device path that is given by CAMERA_DEVICE and need not be a detected one.
ExternalDevice == <<"/dev/video", 9>>

\* os.getenv(name): None when the variable is unset, else its text.
EnvUnset == [set |-> FALSE, val |-> <<>>]

EnvSet(v) == [set |-> TRUE, val |-> v]

NotRead == [set |-> FALSE, val |-> <<"not read">>]

\* Truth value of what os.getenv returned: None and "" are false.
Truthy(e) == e.set /\ Len(e.val) > 0

NoChoice == <<"not read">>

\* Lines a user may type at the prompt.
Choices ==
  {Format(k) : k \in 0..(MaxDevices + 1)}
    \cup {<<" ">> \o Format(k) \o <<" ">> : k \in 1..MaxDevices}
    \cup {<<"a", "l", "l">>, <<"A", "L", "L">>, <<" ", "A", "l", "l", " ">>,
          <<>>, <<"x">>, <<"a", "l">>, <<"-", "1">>, <<"+", "1">>, <<"0", "1">>,
          <<"1", "x">>, <<"1", ".", "0">>, <<"1", " ", "1">>}

\* The machines considered.  attached: the cameras v4l2-ctl lists.  faults:
\* whether the tools may fail to start and may leave bad files and malformed
\* output; without faults a tool only takes its time.  Machines with faults
\* are considered with up to MaxFaultyDevices cameras.
Machines ==
  {[attached |-> n, faults |-> f] :
     n \in 0..MaxDevices, f \in BOOLEAN} \ 
  {[attached |-> n, faults |-> TRUE] : n \in (MaxFaultyDevices + 1)..MaxDevices}

\* Whether a tool starts when subprocess.run is given its name.
Starts == IF machine.faults THEN BOOLEAN ELSE {TRUE}

GoodImage == Jpeg(expected_width, expected_height, <<128>>)

\* What the image path can hold once ffmpeg, or anything else, has written it.
SessionImages ==
  IF machine.faults
  THEN {GoodImage, CorruptFile, EmptyFile, Jpeg(640, 480, <<49>>)}
  ELSE {GoodImage}

\* What the video path can hold after the recording: nothing, or a file.
VideoWritten == IF machine.faults THEN BOOLEAN ELSE {TRUE}

Rate(s) == Streams(<<[r_frame_rate |-> s]>>)

ValidityOutputs ==
  {Streams(<<[width |-> <<"6", "4", "0">>, height |-> <<"4", "8", "0">>]>>)}
    \cup (IF machine.faults
          THEN {NotJson, EmptyObject, Streams(<<>>),
                Streams(<<[width |-> <<"6", "4", "0">>]>>)}
          ELSE {})

FpsOutputs ==
  {Rate(<<"3", "0", "/", "1">>)}
    \cup (IF machine.faults
          THEN {NotJson, EmptyObject, Streams(<<>>),
                Streams(<<[codec_type |-> <<"v">>]>>),
                Rate(<<"0", "/", "0">>), Rate(<<"3", "0", "/", "0">>),
                Rate(<<"N", "/", "A">>), Rate(<<>>),
                Rate(<<"2", "5", "/", "1">>), Rate(<<"6", "1", "/", "2">>),
                Rate(<<"6", "3", "/", "2">>)}
          ELSE {})

AudioOutputs ==
  {Streams(<<[codec_name |-> <<"a", "a", "c">>]>>)}
    \cup (IF machine.faults THEN {NotJson, EmptyObject, Streams(<<>>)} ELSE {})

NoFiles == [p \in {} |-> 0]

(***************************************************************************)
(* The state after the interpreter has loaded the script                   *)
(***************************************************************************)
Idle ==
  /\ exitCode = -1
  /\ raised = "none"
  /\ cameras = <<>>
  /\ env_device = NotRead
  /\ env_docker = NotRead
  /\ choice = NoChoice
  /\ camera_device = <<>>
  /\ todo = <<>>
  /\ mode = "none"
  /\ timestamp = -1
  /\ logs = NoFiles
  /\ videos = NoFiles
  /\ attempt = 0
  /\ captured = "none"
  /\ result = "none"
  /\ sessions = <<>>
  /\ polls = 0
  /\ sleeps = 0
  /\ captureCalls = 0

Init ==
  /\ Idle
  /\ machine \in Machines
  /\ pc = "main"
  /\ clock \in 0..(TicksPerSec - 1)
  /\ fps = DefaultFps
  /\ images = NoFiles
  /\ stdout = NoOutput
  /\ num = 0
  /\ den = 0

(***************************************************************************)
(* Ways the process ends                                                   *)
(***************************************************************************)
\* exit(code)
exit(code) == pc' = "exited" /\ exitCode' = code /\ raised' = "none"

\* An exception nothing catches: the interpreter prints it and exits with 1.
Raise(e) == pc' = "exited" /\ exitCode' = 1 /\ raised' = e

selectionVars == <<cameras, env_device, env_docker, choice, todo, mode>>

sessionVars == <<camera_device, timestamp, attempt, captured, sessions, polls,
                 sleeps, captureCalls>>

checkVars == <<fps, result, num, den, machine>>

(***************************************************************************)
(* CameraTests.__init__                                                    *)
(***************************************************************************)
CameraTests_init(device) ==
  /\ camera_device' = device
  /\ timestamp' = strftime(clock)
  /\ logs' = CreateLog(logs, strftime(clock))
  /\ sessions' = Append(sessions, strftime(clock))
  /\ attempt' = 0
  /\ captured' = "none"
  /\ polls' = 0
  /\ sleeps' = 0
  /\ captureCalls' = 0
  /\ stdout' = NoOutput
  /\ UNCHANGED <<exitCode, raised, clock, images, videos, checkVars>>

(***************************************************************************)
(* The entry point                                                         *)
(***************************************************************************)
\* Once a session is constructed the script reads neither environment value
\* nor the typed line again; `mode` keeps the branch that was taken.
Forget ==
  /\ env_device' = NotRead
  /\ env_docker' = NotRead
  /\ choice' = NoChoice

\* cameras = list_cameras(); if not cameras: exit(1)
main_list_cameras ==
  /\ pc = "main"
  /\ \E started \in Starts :
       IF ~started
       THEN Raise("FileNotFoundError") /\ UNCHANGED cameras
       ELSE /\ cameras' = [i \in 1..machine.attached |-> Device(i - 1)]
            /\ IF machine.attached = 0
               THEN exit(1)
               ELSE pc' = "getenv_device" /\ UNCHANGED <<exitCode, raised>>
  /\ UNCHANGED <<clock, env_device, env_docker, choice, todo, mode, sessionVars,
                 logs, images, videos, stdout, checkVars>>

\* camera_device = os.getenv("CAMERA_DEVICE"); if camera_device: ...
main_getenv_device ==
  /\ pc = "getenv_device"
  /\ \E v \in {EnvUnset, EnvSet(<<>>), EnvSet(ExternalDevice)} :
       /\ env_device' = v
       /\ IF Truthy(v)
          THEN camera_device' = v.val /\ mode' = "env" /\ pc' = "construct"
          ELSE pc' = "getenv_docker" /\ UNCHANGED <<camera_device, mode>>
  /\ UNCHANGED <<exitCode, raised, clock, cameras, env_docker, choice, todo,
                 timestamp, attempt, captured, sessions, polls, sleeps,
                 captureCalls, logs, images, videos, stdout, checkVars>>

\* if os.getenv("RUNNING_IN_DOCKER"): camera_device = cameras[0]
main_getenv_docker ==
  /\ pc = "getenv_docker"
  /\ \E v \in {EnvUnset, EnvSet(<<>>), EnvSet(<<"1">>)} :
       /\ env_docker' = v
       /\ IF Truthy(v)
          THEN camera_device' = cameras[1] /\ mode' = "docker" /\ pc' = "construct"
          ELSE pc' = "input" /\ UNCHANGED <<camera_device, mode>>
  /\ UNCHANGED <<exitCode, raised, clock, cameras, env_device, choice, todo,
                 timestamp, attempt, captured, sessions, polls, sleeps,
                 captureCalls, logs, images, videos, stdout, checkVars>>

\* seq[i] of a Python list: a negative index counts from the end.
InList(seq, i) == 0 - Len(seq) <= i /\ i < Len(seq)

Item(seq, i) == seq[IF i < 0 THEN Len(seq) + i + 1 ELSE i + 1]

\* if cam_index >= len(cameras)
OutOfRange_upper_only(i, n) == i >= n

\* if cam_index < 0 or cam_index >= len(cameras)
OutOfRange(i, n) == i < 0 \/ i >= n

\* choice = input(...).strip() and the branches on it
main_input ==
  /\ pc = "input"
  /\ \E typed \in Choices :
       LET c == strip(typed)
           parsed == int(c)
           cam_index == parsed.val - 1
       IN /\ choice' = c
          /\ IF lower(c) = <<"a", "l", "l">>
             THEN /\ mode' = "all"
                  /\ todo' = cameras
                  /\ pc' = "all_loop"
                  /\ UNCHANGED <<exitCode, raised, camera_device>>
             ELSE IF ~parsed.ok
             THEN \* except ValueError
                  exit(1) /\ mode' = "invalid input" /\ UNCHANGED <<todo, camera_device>>
             ELSE IF OutOfRange(cam_index, Len(cameras))
             THEN exit(1) /\ mode' = "invalid selection"
                          /\ UNCHANGED <<todo, camera_device>>
             ELSE IF ~InList(cameras, cam_index)
             THEN Raise("IndexError") /\ mode' = "index" /\ UNCHANGED <<todo, camera_device>>
             ELSE /\ camera_device' = Item(cameras, cam_index)
                  /\ mode' = "index"
                  /\ pc' = "construct"
                  /\ UNCHANGED <<exitCode, raised, todo>>
  /\ UNCHANGED <<clock, cameras, env_device, env_docker, timestamp, attempt,
                 captured, sessions, polls, sleeps, captureCalls, logs, images,
                 videos, stdout, checkVars>>

\* for cam in cameras: tester = CameraTests(camera_device=cam) ... exit(0)
main_all_loop ==
  /\ pc = "all_loop"
  /\ IF Len(todo) = 0
     THEN /\ exit(0)
          /\ UNCHANGED <<todo, clock, sessionVars, logs, images, videos, stdout,
                         checkVars>>
     ELSE /\ CameraTests_init(Head(todo))
          /\ todo' = Tail(todo)
          /\ pc' = "run_tests"
  /\ Forget
  /\ UNCHANGED <<cameras, mode>>

\* tester = CameraTests(camera_device=camera_device)
main_construct ==
  /\ pc = "construct"
  /\ CameraTests_init(camera_device)
  /\ pc' = "run_tests"
  /\ Forget
  /\ UNCHANGED <<cameras, todo, mode>>

(***************************************************************************)
(* CameraTests.capture_image                                               *)
(***************************************************************************)
\* self.log("Capturing ..."); self.camera.capture_image(filename=...)
\* subprocess.run raises when ffmpeg cannot be started.  Otherwise ffmpeg
\* leaves the image path missing, empty or written; the path or stderr text
\* CameraController.capture_image returns is dropped by the caller.
capture_image_invoke ==
  /\ pc = "capture_image"
  /\ logs' = log(logs, timestamp, Info("Capturing an image"))
  /\ \E started \in Starts :
       IF ~started
       THEN Raise("FileNotFoundError") /\ UNCHANGED <<images, captureCalls, attempt>>
       ELSE /\ captureCalls' = captureCalls + 1
            /\ \E written \in BOOLEAN, f \in SessionImages :
                 images' = IF written THEN WriteFile(images, timestamp, f) ELSE images
            /\ attempt' = 0
            /\ pc' = "ci_sleep"
            /\ UNCHANGED <<exitCode, raised>>
  /\ UNCHANGED <<clock, selectionVars, camera_device, timestamp, captured, sessions,
                 polls, sleeps, videos, stdout, checkVars>>

\* for attempt in range(max_retries): time.sleep(1)
\* While the process sleeps the file may still appear.
capture_image_sleep ==
  /\ pc = "ci_sleep"
  /\ clock' = clock + SleepTicks
  /\ sleeps' = sleeps + 1
  /\ \E appears \in BOOLEAN, f \in SessionImages :
       images' = IF appears /\ ~ExistsNonEmpty(images, timestamp)
                 THEN WriteFile(images, timestamp, f)
                 ELSE images
  /\ pc' = "ci_poll"
  /\ UNCHANGED <<exitCode, raised, selectionVars, camera_device, timestamp, attempt,
                 captured, sessions, polls, captureCalls, logs, videos, stdout,
                 checkVars>>

\* range(max_retries + 1)
LoopDone_one_more(a) == a > max_retries

\* The loop is left when range(max_retries) is used up.
LoopDone(a) == a >= max_retries

\* if os.path.exists(...) and os.path.getsize(...) > 0: log; return True
\* self.log("Retrying ..."), and the next turn of the loop
capture_image_poll ==
  /\ pc = "ci_poll"
  /\ polls' = polls + 1
  /\ IF ExistsNonEmpty(images, timestamp)
     THEN /\ logs' = log(logs, timestamp, Info("Image captured successfully."))
          /\ captured' = "True"
          /\ pc' = "image_tests"
          /\ UNCHANGED attempt
     ELSE /\ logs' = log(logs, timestamp, Info("Retrying image capture"))
          /\ attempt' = attempt + 1
          /\ pc' = IF LoopDone(attempt + 1) THEN "ci_exhausted" ELSE "ci_sleep"
          /\ UNCHANGED captured
  /\ UNCHANGED <<exitCode, raised, clock, selectionVars, camera_device, timestamp,
                 sessions, sleeps, captureCalls, images, videos, stdout, checkVars>>

\* self.log("Image capture failed after retries."); return False
\* and, in run_tests, self.log("Skipping image tests due to failed capture.")
capture_image_exhausted ==
  /\ pc = "ci_exhausted"
  /\ captured' = "False"
  /\ logs' = logAll(logs, timestamp,
                    <<Info("Image capture failed after retries."),
                      Info("Skipping image tests due to failed capture.")>>)
  /\ pc' = "record_video"
  /\ UNCHANGED <<exitCode, raised, clock, selectionVars, camera_device, timestamp,
                 attempt, sessions, polls, sleeps, captureCalls, images, videos,
                 stdout, checkVars>>

(***************************************************************************)
(* CameraTests.run_tests                                                   *)
(***************************************************************************)
runVars == <<exitCode, raised, clock, selectionVars, sessionVars, images, checkVars>>

\* self.log(f"Running Tests on Camera: ..."), then capture_image is entered
run_tests_begin ==
  /\ pc = "run_tests"
  /\ logs' = log(logs, timestamp, Info("Running Tests on Camera"))
  /\ pc' = "capture_image"
  /\ UNCHANGED <<runVars, videos, stdout>>

\* self.log("Running Image Tests..."); assert_test(test_image_exists(), ...)
image_tests_exists ==
  /\ pc = "image_tests"
  /\ logs' = logAll(logs, timestamp,
                    <<Info("Running Image Tests..."),
                      assert_test(test_image_exists(images, timestamp), "Image exists")>>)
  /\ pc' = "it_validity"
  /\ UNCHANGED <<runVars, videos, stdout>>

image_tests_validity ==
  /\ pc = "it_validity"
  /\ logs' = log(logs, timestamp,
                 assert_test(test_image_validity(images, timestamp),
                             "Image is a valid JPEG file"))
  /\ pc' = "it_resolution"
  /\ UNCHANGED <<runVars, videos, stdout>>

\* test_image_resolution logs a line of its own when the image cannot be loaded
image_tests_resolution ==
  /\ pc = "it_resolution"
  /\ logs' = logAll(logs, timestamp,
                    (IF Decodable(images, timestamp) THEN <<>>
                     ELSE <<Info("Skipping resolution test: Image cannot be loaded.")>>)
                    \o <<assert_test(test_image_resolution(images, timestamp),
                                     "Image resolution is correct")>>)
  /\ pc' = "it_brightness"
  /\ UNCHANGED <<runVars, videos, stdout>>

image_tests_brightness ==
  /\ pc = "it_brightness"
  /\ logs' = logAll(logs, timestamp,
                    (IF Decodable(images, timestamp) THEN <<>>
                     ELSE <<Info("Skipping brightness test: Image cannot be loaded.")>>)
                    \o <<assert_test(test_image_brightness(images, timestamp),
                                     "Image brightness is acceptable")>>)
  /\ pc' = "record_video"
  /\ UNCHANGED <<runVars, videos, stdout>>

\* self.record_video(): log, self.camera.record_video(...), log.
\* Popen runs the command through the shell, so a missing ffmpeg is a failed
\* command, not an exception; the path or diagnostic text that
\* CameraController.record_video returns is dropped by the caller.
record_video ==
  /\ pc = "record_video"
  /\ \E written \in VideoWritten :
       videos' = IF written THEN WriteFile(videos, timestamp, "data") ELSE videos
  /\ logs' = logAll(logs, timestamp,
                    <<Info("Starting video recording"), Info("Recording complete.")>>)
  /\ pc' = "video_tests"
  /\ UNCHANGED <<runVars, stdout>>

\* os.path.exists(self.video_path)
test_video_exists(files, path) == path \in DOMAIN files

\* self.log("Running Video Tests..."); assert_test(test_video_exists(), ...)
video_tests_exists ==
  /\ pc = "video_tests"
  /\ logs' = logAll(logs, timestamp,
                    <<Info("Running Video Tests..."),
                      assert_test(test_video_exists(videos, timestamp), "Video file exists")>>)
  /\ pc' = "vt_validity"
  /\ UNCHANGED <<runVars, videos, stdout>>

\* subprocess.run(['ffprobe', ...]) raises when ffprobe cannot be started
video_tests_validity ==
  /\ pc = "vt_validity"
  /\ \E started \in Starts :
       IF ~started
       THEN Raise("FileNotFoundError") /\ UNCHANGED <<logs, stdout>>
       ELSE \E out \in ValidityOutputs :
              /\ UNCHANGED stdout
              /\ logs' = log(logs, timestamp,
                             assert_test(test_video_validity(out), "Video is a valid file"))
              /\ pc' = "vt_fps"
              /\ UNCHANGED <<exitCode, raised>>
  /\ UNCHANGED <<clock, selectionVars, sessionVars, images, videos, checkVars>>

video_tests_fps ==
  /\ pc = "vt_fps"
  /\ \E started \in Starts :
       IF ~started
       THEN Raise("FileNotFoundError") /\ UNCHANGED <<logs, stdout>>
       ELSE \E out \in FpsOutputs :
              LET r == test_video_fps(out, fps)
              IN /\ stdout' = out
                 /\ IF r.exc # "none"
                    THEN Raise(r.exc) /\ UNCHANGED logs
                    ELSE /\ logs' = log(logs, timestamp,
                                        assert_test(r.ret, "Video FPS is correct"))
                         /\ pc' = "vt_audio"
                         /\ UNCHANGED <<exitCode, raised>>
  /\ UNCHANGED <<clock, selectionVars, sessionVars, images, videos, checkVars>>

video_tests_audio ==
  /\ pc = "vt_audio"
  /\ \E started \in Starts :
       IF ~started
       THEN Raise("FileNotFoundError") /\ UNCHANGED <<logs, stdout>>
       ELSE \E out \in AudioOutputs :
              /\ stdout' = NoOutput
              /\ logs' = log(logs, timestamp,
                             assert_test(test_video_audio(out),
                                         "Audio track detected in video"))
              /\ pc' = "rt_done"
              /\ UNCHANGED <<exitCode, raised>>
  /\ UNCHANGED <<clock, selectionVars, sessionVars, images, videos, checkVars>>

\* self.log("Test session completed."); run_tests returns to the entry point:
\* the next turn of the 'all' loop, or the end of the script.
run_tests_done ==
  /\ pc = "rt_done"
  /\ logs' = log(logs, timestamp, Info("Test session completed."))
  /\ UNCHANGED stdout
  /\ IF mode = "all"
     THEN pc' = "all_loop" /\ UNCHANGED <<exitCode, raised>>
     ELSE exit(0)
  /\ UNCHANGED <<clock, selectionVars, sessionVars, images, videos, checkVars>>

Next ==
  \/ main_list_cameras
  \/ main_getenv_device
  \/ main_getenv_docker
  \/ main_input
  \/ main_all_loop
  \/ main_construct
  \/ run_tests_begin
  \/ capture_image_invoke
  \/ capture_image_sleep
  \/ capture_image_poll
  \/ capture_image_exhausted
  \/ image_tests_exists
  \/ image_tests_validity
  \/ image_tests_resolution
  \/ image_tests_brightness
  \/ record_video
  \/ video_tests_exists
  \/ video_tests_validity
  \/ video_tests_fps
  \/ video_tests_audio
  \/ run_tests_done

Spec == Init /\ [][Next]_vars

(***************************************************************************)
(* test_video_fps on its own: the probe output is the rate string printed  *)
(* from num/den, the target any of FpsTargets.                             *)
(***************************************************************************)
FpsTargets == {1, 2, DefaultFps}

RateString(n, d) == Format(n) \o <<"/">> \o Format(d)

Outcome(r) == IF r.exc # "none" THEN r.exc ELSE IF r.ret THEN "True" ELSE "False"

InitFps ==
  /\ Idle
  /\ machine = [attached |-> 0, faults |-> FALSE]
  /\ pc = "fps_input"
  /\ clock = 0
  /\ images = NoFiles
  /\ num \in 0..MaxNum
  /\ den \in 0..MaxDen
  /\ fps \in FpsTargets
  /\ stdout = Rate(RateString(num, den))

check_video_fps ==
  /\ pc = "fps_input"
  /\ result' = Outcome(test_video_fps(stdout, fps))
  /\ pc' = "fps_done"
  /\ UNCHANGED <<exitCode, raised, clock, selectionVars, sessionVars, logs, images,
                 videos, stdout, fps, num, den, machine>>

NextFps == check_video_fps

SpecFps == InitFps /\ [][NextFps]_vars

(***************************************************************************)
(* test_image_brightness on its own: the image path holds any image of up  *)
(* to MaxPix areas of the gray levels PixelLevels, a file that cannot be   *)
(* decoded, or nothing.                                                    *)
(***************************************************************************)
PixelLevels == {0, 49, 50, 51, 128, 199, 200, 201, 255}

PixelPlanes == UNION {[1..k -> PixelLevels] : k \in 1..MaxPix}

BrightnessInputs ==
  {NoFiles}
    \cup {WriteFile(NoFiles, 0, f) : f \in {EmptyFile, CorruptFile}}
    \cup {WriteFile(NoFiles, 0, Jpeg(expected_width, expected_height, q)) :
            q \in PixelPlanes}

InitBrightness ==
  /\ Idle
  /\ machine = [attached |-> 0, faults |-> FALSE]
  /\ pc = "brightness_input"
  /\ clock = 0
  /\ fps = DefaultFps
  /\ stdout = NoOutput
  /\ num = 0
  /\ den = 0
  /\ images \in BrightnessInputs

check_image_brightness ==
  /\ pc = "brightness_input"
  /\ result' = IF test_image_brightness(images, 0) THEN "True" ELSE "False"
  /\ pc' = "brightness_done"
  /\ UNCHANGED <<exitCode, raised, clock, selectionVars, sessionVars, logs, images,
                 videos, stdout, fps, num, den, machine>>

NextBrightness == check_image_brightness

SpecBrightness == InitBrightness /\ [][NextBrightness]_vars

(***************************************************************************)
(* Properties                                                              *)
(***************************************************************************)
IsVerdict(line) == line.kind \in {"PASS", "FAIL"}

\* The messages of the PASS/FAIL lines of a log, in order.
RECURSIVE VerdictMsgs(_)
VerdictMsgs(l) ==
  IF Len(l) = 0 THEN <<>>
  ELSE (IF IsVerdict(Head(l)) THEN <<Head(l).msg>> ELSE <<>>) \o VerdictMsgs(Tail(l))

ImageMsgs ==
  <<"Image exists", "Image is a valid JPEG file", "Image resolution is correct",
    "Image brightness is acceptable">>

VideoMsgs ==
  <<"Video file exists", "Video is a valid file", "Video FPS is correct",
    "Audio track detected in video">>

\* Position of the first line of l with message m, 0 when there is none.
IndexOf(l, m) ==
  IF \E i \in 1..Len(l) : l[i].msg = m
  THEN CHOOSE i \in 1..Len(l) : l[i].msg = m /\ \A j \in 1..(i - 1) : l[j].msg # m
  ELSE 0

\* The lines of l before its first PASS/FAIL line.
BeforeFirstVerdict(l) ==
  IF \E i \in 1..Len(l) : IsVerdict(l[i])
  THEN SubSeq(l, 1, (CHOOSE i \in 1..Len(l) :
                       IsVerdict(l[i]) /\ \A j \in 1..(i - 1) : ~IsVerdict(l[j])) - 1)
  ELSE l

Count(l, kind) == Cardinality({i \in 1..Len(l) : l[i].kind = kind})

IsPrefix(a, b) == Len(a) <= Len(b) /\ SubSeq(b, 1, Len(a)) = a

InSession == timestamp # -1

\* The log of the session under test.
SessionLog == IF timestamp \in DOMAIN logs THEN logs[timestamp] ELSE <<>>

\* run_tests of the session under test is over: it returned or it raised.
RunOver == InSession /\ pc \in {"exited", "all_loop"}

\* C1: when capture_image returned False, the run logs no image verdict,
\* records the video and logs all four video verdicts.
C1_SkipImageRunVideo ==
  (RunOver /\ captured = "False") =>
     /\ VerdictMsgs(SessionLog) = VideoMsgs
     /\ IndexOf(SessionLog, "Recording complete.") > 0

\* C2: run_tests never raises, and the last line it appends to the log is
\* 'Test session completed.'.
C2_NeverRaises ==
  RunOver =>
     /\ raised = "none"
     /\ SessionLog[Len(SessionLog)].msg = "Test session completed."

\* C10: every check that is run leaves exactly one verdict line: eight, in
\* the fixed order, after a successful capture and the four video ones after
\* a failed capture, the video verdicts after 'Recording complete.'.
C10_VerdictLines ==
  RunOver =>
     /\ captured = "True" => VerdictMsgs(SessionLog) = ImageMsgs \o VideoMsgs
     /\ captured = "False" => VerdictMsgs(SessionLog) = VideoMsgs
     /\ captured # "none" =>
          /\ IndexOf(SessionLog, "Recording complete.") > 0
          /\ \A i \in 1..4 :
                IndexOf(SessionLog, VideoMsgs[i]) > IndexOf(SessionLog, "Recording complete.")

\* C3: the log file of every session exists from construction on, and the
\* part of it before the first PASS/FAIL line holds exactly one header line.
C3_OneHeader ==
  \A i \in 1..Len(sessions) :
     /\ sessions[i] \in DOMAIN logs
     /\ Count(BeforeFirstVerdict(logs[sessions[i]]), "HEADER") = 1

C3_Witness ==
  /\ pc = "rt_done"
  /\ Len(VerdictMsgs(SessionLog)) = 8

\* The paths of a session are made of its timestamp alone.
C4_Distinct ==
  \A i, j \in 1..Len(sessions) : i # j => sessions[i] # sessions[j]

C4_AppendOnlyStep ==
  \A t \in DOMAIN logs : t \in DOMAIN logs' /\ IsPrefix(logs[t], logs'[t])

\* C4: the sessions of one process have pairwise different timestamps, hence
\* different image, video and log paths, and no step removes or changes a
\* line of a log file: a log only grows at its end.
C4_LogsAppendOnly == []C4_Distinct /\ [][C4_AppendOnlyStep]_vars

C4_Witness ==
  /\ Len(sessions) = 2
  /\ pc = "rt_done"
  /\ Len(logs[sessions[1]]) > 2

\* Probe output the frame-rate check cannot use: not JSON, no first stream,
\* no r_frame_rate field, or a rate whose denominator is zero.
ZeroDenominator(s) == Len(s) >= 3 /\ s[Len(s)] = "0" /\ s[Len(s) - 1] = "/"

Unusable(out) ==
  \/ ~out.json
  \/ ~out.hasStreams
  \/ Len(out.streams) = 0
  \/ "r_frame_rate" \notin DOMAIN out.streams[1]
  \/ ZeroDenominator(out.streams[1]["r_frame_rate"])

\* C5: on unusable probe output test_video_fps returns False and raises
\* nothing: run_tests logs 'FAIL: Video FPS is correct' and goes on to the
\* audio check.
C5_UnusableProbeFails ==
  /\ raised \in {"none", "FileNotFoundError"}
  /\ (pc = "vt_audio" /\ Unusable(stdout)) =>
        SessionLog[Len(SessionLog)] = Line("FAIL", "Video FPS is correct")

C5_Witness ==
  /\ pc = "vt_audio"
  /\ stdout = Rate(<<"0", "/", "0">>)

\* C6: for a rate string "n/d" with n >= 0 and d > 0 the rate derived is n/d,
\* and the check returns True exactly when |n - fps*d| <= d.
C6_FpsWithinOne ==
  (pc = "fps_done" /\ den > 0) =>
     /\ LET v == eval(RateString(num, den))
        IN v.exc = "none" /\ v.n * den = num * v.d
     /\ result \in {"True", "False"}
     /\ result = "True" <=> Abs(num - fps * den) <= den

C6_Witness ==
  /\ pc = "fps_done"
  /\ num = 61 /\ den = 2 /\ fps = 30
  /\ result = "True"

\* C7: a decodable image passes the brightness check exactly when its mean
\* gray level m has 50 <= m <= 200 (50 and 200 pass, 49 and 201 fail); an
\* image that cannot be decoded fails.
C7_BrightnessBand ==
  pc = "brightness_done" =>
     IF 0 \in DOMAIN images /\ images[0].kind = "jpeg"
     THEN LET q == images[0].pix
          IN /\ result = "True" <=> (50 * Len(q) <= Sum(q) /\ Sum(q) <= 200 * Len(q))
             /\ (\A i \in 1..Len(q) : q[i] \in {50, 200}) => result = "True"
             /\ (\A i \in 1..Len(q) : q[i] = 49) => result = "False"
             /\ (\A i \in 1..Len(q) : q[i] = 201) => result = "False"
     ELSE result = "False"

C7_Witness ==
  /\ pc = "brightness_done"
  /\ 0 \in DOMAIN images
  /\ images[0].pix = <<200>>
  /\ result = "True"

\* The typed line is the word 'all': the comparison ignores letter case, and
\* the line is held with the blanks around it removed.
IsAll(c) == c \in {<<x, y, z>> : x \in {"a", "A"}, y \in {"l", "L"}, z \in {"l", "L"}}

\* The typed line is the number k >= 0, written with or without a plus sign
\* or a leading zero.
Denotes(c, k) == c \in {Format(k), <<"+">> \o Format(k), <<"0">> \o Format(k)}

\* An invalid selection: neither 'all' nor the number of a listed device.
InvalidSelection(c, n) == ~IsAll(c) /\ ~\E k \in 1..n : Denotes(c, k)

SelectionRead == choice # NoChoice

\* C8: the entry point exits non-zero, with no session constructed, when no
\* device is found or the selection that was read is invalid; otherwise it
\* goes on to construct a session, and ends with at least one session run.
C8_ExitOnlyWhenInvalid ==
  /\ (pc # "main" /\ Len(cameras) = 0) =>
        pc = "exited" /\ exitCode = 1 /\ Len(sessions) = 0
  /\ (SelectionRead /\ InvalidSelection(choice, Len(cameras))) =>
        pc = "exited" /\ exitCode = 1 /\ Len(sessions) = 0
  /\ (SelectionRead /\ ~InvalidSelection(choice, Len(cameras))) =>
        pc \in {"construct", "all_loop"} /\ exitCode = -1
  /\ (pc \in {"getenv_docker", "input"} \/ mode \in {"env", "docker"}) =>
        exitCode # 1 \/ raised # "none"
  /\ (pc = "exited" /\ Len(cameras) > 0
         /\ ~(SelectionRead /\ InvalidSelection(choice, Len(cameras)))) =>
        /\ Len(sessions) >= 1
        /\ exitCode = 0 \/ raised # "none"
  /\ (pc = "all_loop" /\ Len(sessions) = 0) => Len(todo) >= 1

C8_Witness ==
  /\ pc = "exited"
  /\ exitCode = 1
  /\ raised = "none"
  /\ Len(cameras) = 2
  /\ choice = <<"3">>

InCapture == pc \in {"capture_image", "ci_sleep", "ci_poll", "ci_exhausted"}

\* Steps capture_image has still to make, at most.
C9_Rank ==
  CASE pc = "capture_image" -> 8
    [] pc = "ci_sleep" -> 1 + 2 * (3 - attempt)
    [] pc = "ci_poll" -> 2 * (3 - attempt)
    [] OTHER -> 0

C9_Bounded ==
  /\ captureCalls <= 1
  /\ polls <= 3
  /\ sleeps = (IF pc = "ci_poll" THEN polls + 1 ELSE polls)
  /\ (pc \in {"ci_sleep", "ci_poll"} \/ captured # "none") => captureCalls = 1
  /\ captured = "True" =>
        /\ polls >= 1
        /\ Cardinality({i \in 1..Len(SessionLog) :
                          SessionLog[i].msg = "Retrying image capture"}) = polls - 1
        /\ ExistsNonEmpty(images, timestamp)
  /\ captured = "False" =>
        /\ polls = 3
        /\ Cardinality({i \in 1..Len(SessionLog) :
                          SessionLog[i].msg = "Retrying image capture"}) = 3
  /\ InCapture => (C9_Rank >= 0 /\ ENABLED Next)

C9_Step ==
  /\ (InCapture /\ InCapture') => C9_Rank' < C9_Rank
  /\ (captured # "none" /\ timestamp' = timestamp /\ sessions' = sessions) =>
        (polls' = polls /\ captureCalls' = captureCalls)

\* C9: capture_image invokes the controller once, sleeps once before each
\* poll, polls at most 3 times, returns True at the first poll that finds
\* the file non-empty and False only after 3 polls that did not, and ends.
C9_BoundedPolling == []C9_Bounded /\ [][C9_Step]_vars

C9_Witness ==
  /\ captured = "True"
  /\ polls = 2
  /\ pc = "image_tests"

====
